---- MODULE Spec2Model ----
(***************************************************************************)
(* The game process bridge (GameWrapper / VisualGameWrapper) and the       *)
(* episode state machine (OpenFrontIOEnv, OpenFrontEnv,                    *)
(* OpenFrontEnvFullGame) of the OpenFront.io reinforcement-learning agent. *)
(*                                                                         *)
(* Two layers share one state:                                             *)
(*   - the bridge layer (Spec, SpecDesync, SpecFair): _send_command and    *)
(*     close() of the three wrappers, interleaved with the child process   *)
(*     at the granularity of one pipe operation;                           *)
(*   - the episode layer (EnvSpec): reset() and step() of the three        *)
(*     environments, one action per call, every RPC of the call drawn      *)
(*     from the outcomes _send_command can produce.                        *)
(***************************************************************************)
EXTENDS Integers, Sequences, FiniteSets, TLC

VARIABLES
    impl,          \* which implementation is running
    process,       \* self.process: "none" (None) or "set" (a Popen handle)
    child,         \* the OS child process: "running" or "exited"
    stdin,         \* request lines written by the wrapper, not yet read by the child
    childPending,  \* the request the child is working on (NoReq when none)
    logsLeft,      \* diagnostic units the child still writes to stderr before it answers
    answered,      \* number of the last request the child answered
    stdout,        \* response lines written by the child, not yet read by the wrapper
    stderrFill,    \* units sitting in the stderr pipe
    sigterm,       \* terminate() has delivered SIGTERM
    pc,            \* the caller: "idle", "sent" (blocked in readline), "wait" (in process.wait)
    cmd,           \* the command of the _send_command in progress
    closing,       \* the _send_command in progress was issued by close()
    nWritten,      \* request lines written so far
    nRead,         \* response lines consumed so far
    lastCall,      \* what the last finished _send_command did
    closeResult,   \* how the last finished close() ended: "none", "returned", "raised"
    game,          \* self.game of the environment: "none" or "created"
    engState,      \* the snapshot the game engine holds (what get_state would answer)
    current_state, \* GameWrapper.current_state (phase5): NoState or the cached snapshot
    previous_state,\* self.previous_state (phase5): NoState or a snapshot
    step_count,    \* self.step_count
    episode_count, \* self.episode_count
    frame_buffer,  \* self.frame_buffer (phase5): the deque of single frames
    recent_attack_directions, \* self.recent_attack_directions (OpenFrontEnv)
    current_clusters, \* len(self.current_clusters) (OpenFrontEnvFullGame)
    episode,       \* where the episode stands: "Unstarted", "Active", "Ended"
    ret,           \* what the last reset()/step() call did and returned
    episode_return,\* the rewards returned since the last reset, summed (when followed)
    calcIn,        \* the arguments of the pure computation under study (NoInput when none)
    calcOut,       \* its result (NoOutput until it has run)
    ws             \* RLWebSocketServer: self.clients, the connections, and a broadcast

rpcVars == <<process, child, stdin, childPending, logsLeft, answered, stdout,
             stderrFill, sigterm, pc, cmd, closing, nWritten, nRead, lastCall,
             closeResult>>

\* the bridge state an environment call leaves alone (everything but child)
rpcRest == <<process, stdin, childPending, logsLeft, answered, stdout, stderrFill,
             sigterm, pc, cmd, closing, nWritten, nRead, lastCall, closeResult>>

envVars == <<game, engState, current_state, previous_state, step_count, episode_count,
             frame_buffer, recent_attack_directions, current_clusters, episode, ret,
             episode_return>>

\* a computation of the environment taken on its own
calcVars == <<calcIn, calcOut>>

vars == <<impl, rpcVars, envVars, calcVars, ws>>

-----------------------------------------------------------------------------
(* Bounds *)

MaxCalls == 3      \* request lines written in one behaviour
PipeCap == 2       \* capacity of the stderr pipe, in diagnostic units
MaxLog == 2        \* diagnostic units the child may write per request
MaxExtra == 1      \* surplus response lines a desynchronised child may emit

-----------------------------------------------------------------------------
(* The wire protocol *)

Commands == {"reset", "tick", "get_state", "attack_direction", "build_unit", "launch_nuke"}

NoReq == [type |-> "none", seq |-> 0]

\* (type, success) of a response line
RespKinds == { <<"response", TRUE>>, <<"response", FALSE>>, <<"error", FALSE>> }

\* what a finished _send_command did: the request it wrote, the response line
\* it read (type, success), how it ended, and whether the error it raised
\* quotes the child's stderr (and how many units of it)
NoCall == [seq |-> 0, wrote |-> 0, read |-> 0, resp |-> 0, outcome |-> "none", why |-> "none",
           command |-> "none", type |-> "none", success |-> FALSE,
           withStderr |-> FALSE, stderr |-> 0]

\* _send_command on an empty readline(): does the error quote
\* self.process.stderr.read()?
QuotesStderr(w) == w # "p5"

\* the wrapper class of each implementation
Wrapper ==
    CASE impl = "phase12" -> "p12"
      [] impl = "phase4" -> "p4"
      [] OTHER -> "p5"

\* _send_command: the entry check that raises before anything is written
GuardFails(w) ==
    IF w = "p5" THEN process = "none" \/ child = "exited"
    ELSE process = "none"

\* _send_command: does this response make the call raise?
RaisesMutant(w, c, type, success) ==
    IF w = "p5" THEN ~success
    ELSE type = "error"

Raises(w, c, type, success) ==
    IF w = "p5" THEN ~success /\ c \notin {"build_unit", "launch_nuke"}
    ELSE type = "error"

\* where _send_command stands once the request line is written and flushed
AfterWriteMutant == "idle"

AfterWrite == "sent"

-----------------------------------------------------------------------------
(* Snapshots, frames and actions of the episode layer *)

max_steps == 2      \* the step limit (phase1-2 config max_steps; 10000 in OpenFrontEnv)
frame_stack == 2    \* frames kept in the frame buffer
MaxEpisodes == 2    \* resets in one behaviour
MaxClusters == 1    \* clusters a snapshot may list
MaxNeighbors == 1   \* attackable neighbours a snapshot may list
MaxRecent == 2      \* length of recent_attack_directions (10 in OpenFrontEnv)
MaxClients == 2     \* websocket clients that connect in one behaviour
MaxBroadcasts == 2  \* broadcasts in one behaviour

\* tiles owned on a ten-tile map: none, some, four fifths
\* what a snapshot may say of the player: (game_over, has_won, has_lost,
\* tiles_owned), tiles in tenths of the map; undecided with no tile, half the
\* map or 80% of it, won, lost, and lost before the game is over
Outcomes == { <<FALSE, FALSE, FALSE, 0>>, <<FALSE, FALSE, FALSE, 5>>,
              <<FALSE, FALSE, FALSE, 8>>, <<TRUE, TRUE, FALSE, 8>>,
              <<TRUE, FALSE, TRUE, 0>>, <<FALSE, FALSE, TRUE, 0>> }

\* None, where a snapshot is expected
NoState == [valid |-> FALSE, game |-> 0, tick |-> 0, game_over |-> FALSE,
            has_won |-> FALSE, has_lost |-> FALSE, tiles_owned |-> 0,
            clusters |-> 0, neighbors |-> 0]

\* the snapshots the engine may hold at tick t of game g; the phase1-2 bridge
\* knows attackable neighbours, the phase5 bridge knows clusters (none of
\* them, or as many as the bound allows)
Snapshots(g, t) ==
    { [valid |-> TRUE, game |-> g, tick |-> t, game_over |-> f[1], has_won |-> f[2],
       has_lost |-> f[3], tiles_owned |-> f[4], clusters |-> c, neighbors |-> k] :
         f \in Outcomes,
         c \in (IF impl = "phase5full" THEN {0, MaxClusters} ELSE {0}),
         k \in (IF impl = "phase12" THEN {0, MaxNeighbors} ELSE {0}) }

\* a new game: nothing is decided yet
InitialSnapshots(g) ==
    { s \in Snapshots(g, 0) : ~s.game_over /\ ~s.has_won /\ ~s.has_lost }

\* GameState.territory_pct, in percent
TerritoryPct(s) == s.tiles_owned * 10

\* _get_obs on a state that is None
ZeroFrame == [game |-> 0, tick |-> 0, territory |-> 0, momentum |-> 0, attacks |-> 0]

\* _get_obs / _get_observation: one frame, tagged with the snapshot it was
\* extracted from; momentum is feature 8, attacks is feature 12
Frame(s, prev, recent) ==
    IF ~s.valid THEN ZeroFrame
    ELSE [game |-> s.game, tick |-> s.tick, territory |-> TerritoryPct(s),
          momentum |-> IF prev.valid THEN TerritoryPct(s) - TerritoryPct(prev) ELSE 0,
          attacks |-> Len(recent)]

\* reset(): the frame buffer is cleared and filled with the first frame
FillFramesMutant(obs) == <<obs>>

FillFrames(obs) == [i \in 1..frame_stack |-> obs]

\* deque(maxlen=frame_stack).append
PushFrameMutant(buf, f) ==
    IF Len(buf) >= frame_stack THEN Append(SubSeq(buf, 1, Len(buf) - 1), f) ELSE Append(buf, f)

PushFrame(buf, f) ==
    IF Len(buf) >= frame_stack THEN Append(Tail(buf), f) ELSE Append(buf, f)

\* step(): recent_attack_directions.append, pop(0) beyond the limit
PushDirection(recent, d) ==
    LET r == Append(recent, d)
    IN IF Len(r) > MaxRecent THEN Tail(r) ELSE r

\* OpenFrontEnv._check_done, step_count as it stands before the increment
CheckDone(s, sc) ==
    IF ~s.valid THEN FALSE
    ELSE \/ TerritoryPct(s) >= 80
         \/ TerritoryPct(s) = 0
         \/ sc >= max_steps

\* OpenFrontEnvFullGame.action_dims
action_dims == <<5, 11, 5, 7, 2, 10>>

RECURSIVE Stride(_)
\* the weight of dimension i in the flat index (C order)
Stride(i) == IF i >= Len(action_dims) THEN 1 ELSE action_dims[i + 1] * Stride(i + 1)

\* np.unravel_index(action, action_dims)
UnravelMutant(a) == [i \in 1..Len(action_dims) |-> a \div Stride(i)]

Unravel(a) == [i \in 1..Len(action_dims) |-> (a \div Stride(i)) % action_dims[i]]

\* flat actions of OpenFrontEnvFullGame: cluster 0 attacks north, cluster 0
\* builds nothing, cluster 0 builds a City, cluster 0 launches an Atom Bomb,
\* cluster 1 attacks north
FullActions == {0, 6300, 6320, 7000, 7700}

\* flat actions of OpenFrontEnv: north at 15%, WAIT at 15%
Actions5 == {0, 40}

\* actions of OpenFrontIOEnv: (attack_target, attack_percentage in percent)
Actions12 == { <<0, 50>>, <<1, 50>>, <<1, 0>> }

\* what the engine may answer: success, success=false, the error marker, or
\* nothing because it dies first
ActionAnswers == IF child = "exited" THEN {"dead"} ELSE {"ok", "fail", "error", "dead"}

QueryAnswers == IF child = "exited" THEN {"dead"} ELSE {"ok", "error", "dead"}

AnswerType(o) == IF o = "error" THEN "error" ELSE "response"

AnswerSuccess(o) == o = "ok"

\* _send_command raises on this answer to command c
EnvRaises(c, o) ==
    \/ o = "dead"
    \/ Raises(Wrapper, c, AnswerType(o), AnswerSuccess(o))

\* a reward, as the number of times each weight enters it: the weight per
\* tile gained, the action bonus, the per-step term, the rank percentile, the
\* win bonus, the loss penalty and the timeout penalty
ZeroReward == [tile_change |-> 0, action |-> 0, step |-> 0, rank |-> 0, win |-> 0,
               loss |-> 0, timeout |-> 0]

AddReward(a, b) == [k \in DOMAIN a |-> a[k] + b[k]]

\* 1 for True, 0 for False
Ind(b) == IF b THEN 1 ELSE 0

\* info without an 'episode' entry
NoSummary == [attached |-> FALSE, r |-> ZeroReward, l |-> 0, tiles |-> 0, won |-> FALSE,
              lost |-> FALSE]

\* OpenFrontIOEnv._calculate_reward, step_count as it stands after the
\* increment (the kill and troop-strength terms read fields a snapshot of
\* this model does not carry)
CalculateReward(state_before, state_after, action_taken, sc) ==
    [tile_change |-> state_after.tiles_owned - state_before.tiles_owned,
     action |-> Ind(action_taken),
     step |-> 1,
     rank |-> 0,
     win |-> Ind(state_after.has_won),
     loss |-> Ind(~state_after.has_won /\ state_after.has_lost),
     timeout |-> Ind(~state_after.has_won /\ ~state_after.has_lost
                     /\ sc >= max_steps /\ ~state_after.game_over)]

\* the survival multiplier of OpenFrontEnv._compute_reward; its thresholds
\* 1000, 2500 and 5000 are a tenth, a quarter and a half of the step limit
Multiplier(sc) ==
    IF sc < max_steps \div 10 THEN 1
    ELSE IF sc < max_steps \div 4 THEN 2
    ELSE IF sc < max_steps \div 2 THEN 4
    ELSE 8

\* OpenFrontEnv._compute_reward, step_count as it stands before the increment
\* (rank_percentile itself is a field a snapshot of this model does not carry:
\* the reward records the multiplier it is weighted with)
ComputeReward5(state, sc) ==
    [ZeroReward EXCEPT !.rank = Multiplier(sc),
                       !.win = Ind(TerritoryPct(state) >= 80),
                       !.timeout = Ind(sc >= max_steps)]

\* OpenFrontEnvFullGame._compute_reward (the population, gold, building and
\* nuke terms read fields a snapshot of this model does not carry)
ComputeRewardFull(current, previous, action_success) ==
    IF ~previous.valid THEN [ZeroReward EXCEPT !.step = 1]
    ELSE LET won == current.game_over /\ current.has_won
             lost == ~won /\ current.game_over /\ current.has_lost
         IN [ZeroReward EXCEPT
                !.tile_change = current.tiles_owned - previous.tiles_owned,
                !.win = Ind(won),
                !.loss = Ind(lost),
                !.step = Ind(~won /\ ~lost)]

\* OpenFrontEnvClusters._compute_reward: a won or a lost snapshot returns the
\* fixed value at once
ComputeRewardClusters(current, previous) ==
    IF ~previous.valid THEN ZeroReward
    ELSE IF current.has_won THEN [ZeroReward EXCEPT !.win = 1]
    ELSE IF current.has_lost THEN [ZeroReward EXCEPT !.loss = 1]
    ELSE [ZeroReward EXCEPT
             !.tile_change = current.tiles_owned - previous.tiles_owned,
             !.step = 1]

\* the weights of each environment in tenths (the defaults of OpenFrontIOEnv,
\* the literals of the other two; a tile is a tenth of the map, so that the
\* clusters environment's 100 per unit of territory_pct is 10 per tile)
Weights ==
    [phase12 |-> [tile_change |-> 1000, action |-> 5, step |-> -1, rank |-> 0,
                  win |-> 100000, loss |-> -100000, timeout |-> -50000],
     phase5full |-> [tile_change |-> 100, action |-> 0, step |-> 10, rank |-> 0,
                     win |-> 2000, loss |-> -1000, timeout |-> 0],
     clusters |-> [tile_change |-> 100, action |-> 0, step |-> 1, rank |-> 0,
                   win |-> 1000, loss |-> -500, timeout |-> 0]]

\* the number a reward is under the weights of that environment, in tenths
Value(env, r) ==
    LET w == Weights[env]
    IN r.tile_change * w.tile_change + r.action * w.action + r.step * w.step
         + r.rank * w.rank + r.win * w.win + r.loss * w.loss + r.timeout * w.timeout

NoRet == [op |-> "none", raised |-> FALSE, terminated |-> FALSE, truncated |-> FALSE,
          cmds |-> <<>>, answers |-> <<>>, action_success |-> FALSE,
          phase |-> "Unstarted", invalid |-> FALSE, prevAttackable |-> 0,
          stepBefore |-> 0, episodeBefore |-> 0,
          reward |-> ZeroReward, summary |-> NoSummary, held |-> NoState]

-----------------------------------------------------------------------------
\* the wrapper after its constructor has spawned the child
BridgeInit ==
    /\ process = "set"
    /\ child = "running"
    /\ stdin = <<>>
    /\ childPending = NoReq
    /\ logsLeft = 0
    /\ answered = 0
    /\ stdout = <<>>
    /\ stderrFill = 0
    /\ sigterm = FALSE
    /\ pc = "idle"
    /\ cmd = NoReq
    /\ closing = FALSE
    /\ nWritten = 0
    /\ nRead = 0
    /\ lastCall = NoCall
    /\ closeResult = "none"

\* the environment after its constructor; OpenFrontIOEnv creates its wrapper
\* at the first reset()
EnvInitState ==
    /\ game = IF impl = "phase12" THEN "none" ELSE "created"
    /\ engState \in Snapshots(0, 0)
    /\ engState.tiles_owned = 0
    /\ engState.clusters = 0
    /\ engState.neighbors = 0
    /\ ~engState.game_over /\ ~engState.has_won /\ ~engState.has_lost
    /\ current_state = NoState
    /\ previous_state = NoState
    /\ step_count = 0
    /\ episode_count = 0
    /\ frame_buffer = <<>>
    /\ recent_attack_directions = <<>>
    /\ current_clusters = 0
    /\ episode = "Unstarted"
    /\ ret = NoRet

NoInput == [fn |-> "none"]

NoOutput == [fn |-> "none"]

\* no computation is singled out
CalcIdle == calcIn = NoInput /\ calcOut = NoOutput

\* the websocket connections that may be made
Clients == 1..MaxClients

\* RLWebSocketServer.__init__: no client, no broadcast under way.  clients is
\* self.clients; open holds the connections that are up, handlers the running
\* handle_client coroutines, seen the connections ever made; broadcast is where
\* the broadcast stands, used the size its set iterator was created with, todo
\* what the iterator has yet to yield, cur the client of the pending send;
\* delivered counts the sends that returned, whole holds the clients that
\* have been connected since the broadcast began
ServerStart ==
    [clients |-> {}, open |-> {}, handlers |-> {}, seen |-> {}, broadcast |-> "idle",
     used |-> 0, todo |-> {}, cur |-> 0, disconnected |-> {},
     delivered |-> [c \in Clients |-> 0], whole |-> {}, rounds |-> 0]

\* the websocket server is not in use
ServerIdle == ws = ServerStart

\* the rewards of the episode are not followed
Untracked == episode_return = [on |-> FALSE, total |-> ZeroReward]

\* the rewards of the episode are followed
Tracked == episode_return = [on |-> TRUE, total |-> ZeroReward]

Init ==
    /\ impl \in {"phase12", "phase5", "phase4"}
    /\ BridgeInit
    /\ EnvInitState
    /\ CalcIdle
    /\ Untracked
    /\ ServerIdle

-----------------------------------------------------------------------------
(* close(): what follows the shutdown _send_command *)

\* phase5: the except branch, kill() then wait(), then self.process = None
CloseKillMutant ==
    /\ child' = "exited"
    /\ pc' = "idle"
    /\ closeResult' = "returned"
    /\ UNCHANGED <<sigterm, process>>

CloseKill ==
    /\ child' = "exited"
    /\ process' = "none"
    /\ pc' = "idle"
    /\ closeResult' = "returned"
    /\ UNCHANGED sigterm

\* phase1-2 and phase4: terminate(), then wait(timeout=5)
CloseTerminate ==
    /\ sigterm' = TRUE
    /\ pc' = "wait"
    /\ UNCHANGED <<child, process, closeResult>>

\* the _send_command of close() has ended with this outcome
AfterShutdown(outcome) ==
    IF Wrapper = "p5"
    THEN IF outcome = "returned"
         THEN /\ pc' = "wait"
              /\ UNCHANGED <<child, process, closeResult, sigterm>>
         ELSE CloseKill
    ELSE CloseTerminate

\* a _send_command has ended: back to the caller, or on with close()
Finish(fromClose, outcome) ==
    IF fromClose
    THEN AfterShutdown(outcome)
    ELSE /\ pc' = "idle"
         /\ UNCHANGED <<child, process, closeResult, sigterm>>

-----------------------------------------------------------------------------
(* _send_command *)

\* the entry check, then write + flush of one request line
SendWrite(c, fromClose) ==
    /\ pc = "idle"
    /\ nWritten < MaxCalls
    /\ IF GuardFails(Wrapper)
       THEN /\ lastCall' = [NoCall EXCEPT !.outcome = "raised", !.why = "not_running"]
            /\ closing' = fromClose
            /\ Finish(fromClose, "raised")
            /\ UNCHANGED <<stdin, cmd, nWritten>>
       ELSE IF child = "exited"
       THEN \* BrokenPipeError from write/flush on the dead child's stdin
            /\ lastCall' = [NoCall EXCEPT !.outcome = "raised", !.why = "broken_pipe"]
            /\ closing' = fromClose
            /\ Finish(fromClose, "raised")
            /\ UNCHANGED <<stdin, cmd, nWritten>>
       ELSE /\ stdin' = Append(stdin, [type |-> c, seq |-> nWritten + 1])
            /\ cmd' = [type |-> c, seq |-> nWritten + 1]
            /\ nWritten' = nWritten + 1
            /\ closing' = fromClose
            /\ pc' = AfterWrite
            /\ UNCHANGED <<child, process, closeResult, sigterm, lastCall>>
    /\ UNCHANGED <<envVars, calcVars, ws, impl, childPending, logsLeft, answered, stdout, stderrFill, nRead>>

\* an operation of the wrapper that issues one RPC
Call == \E c \in Commands : SendWrite(c, FALSE)

\* readline() returns a line: parse it, return it or raise
ReadResponse ==
    /\ pc = "sent"
    /\ stdout # <<>>
    /\ LET line == Head(stdout)
           outcome == IF Raises(Wrapper, cmd.type, line.type, line.success)
                      THEN "raised" ELSE "returned"
       IN /\ stdout' = Tail(stdout)
          /\ nRead' = nRead + 1
          /\ lastCall' = [seq |-> cmd.seq, wrote |-> 1, read |-> 1, resp |-> line.for,
                          outcome |-> outcome, why |-> "response",
                          command |-> cmd.type, type |-> line.type,
                          success |-> line.success,
                          withStderr |-> FALSE, stderr |-> 0]
          /\ Finish(closing, outcome)
    /\ UNCHANGED <<envVars, calcVars, ws, impl, stdin, childPending, logsLeft, answered, stderrFill, cmd,
                   closing, nWritten>>

\* readline() returns '' because the child is gone: raise; the phase1-2 and
\* phase4 wrappers read what is left in the stderr pipe into the message
ReadEOF ==
    /\ pc = "sent"
    /\ stdout = <<>>
    /\ child = "exited"
    /\ lastCall' = [seq |-> cmd.seq, wrote |-> 1, read |-> 0, resp |-> 0,
                    outcome |-> "raised", why |-> "eof",
                    command |-> cmd.type, type |-> "none", success |-> FALSE,
                    withStderr |-> QuotesStderr(Wrapper),
                    stderr |-> IF QuotesStderr(Wrapper) THEN stderrFill ELSE 0]
    /\ stderrFill' = IF QuotesStderr(Wrapper) THEN 0 ELSE stderrFill
    /\ Finish(closing, "raised")
    /\ UNCHANGED <<envVars, calcVars, ws, impl, stdin, childPending, logsLeft, answered, stdout,
                   cmd, closing, nWritten, nRead>>

-----------------------------------------------------------------------------
(* close() *)

Close ==
    /\ pc = "idle"
    /\ IF process = "none"
       THEN /\ closeResult' = "returned"
            /\ UNCHANGED <<envVars, calcVars, ws, impl, process, child, stdin, childPending, logsLeft, answered,
                           stdout, stderrFill, sigterm, pc, cmd, closing, nWritten,
                           nRead, lastCall>>
       ELSE SendWrite("shutdown", TRUE)

\* process.wait(timeout=...) of close()
CloseWait ==
    /\ pc = "wait"
    /\ pc' = "idle"
    /\ closing' = FALSE
    /\ CASE Wrapper = "p5" ->
              \* wait(timeout=2); on TimeoutExpired kill() and wait()
              /\ child' = "exited"
              /\ process' = "none"
              /\ closeResult' = "returned"
         [] Wrapper = "p12" ->
              IF child = "exited"
              THEN /\ process' = "none"
                   /\ closeResult' = "returned"
                   /\ UNCHANGED child
              ELSE \* TimeoutExpired leaves close()
                   /\ closeResult' = "raised"
                   /\ UNCHANGED <<child, process>>
         [] OTHER ->
              \* VisualGameWrapper.close never clears self.process
              /\ closeResult' = IF child = "exited" THEN "returned" ELSE "raised"
              /\ UNCHANGED <<child, process>>
    /\ UNCHANGED <<envVars, calcVars, ws, impl, stdin, childPending, logsLeft, answered, stdout, stderrFill,
                   sigterm, cmd, nWritten, nRead, lastCall>>

-----------------------------------------------------------------------------
(* The child process *)

\* the child takes the next request line off its stdin
ChildRead ==
    /\ child = "running"
    /\ childPending = NoReq
    /\ stdin # <<>>
    /\ childPending' = Head(stdin)
    /\ stdin' = Tail(stdin)
    /\ \E n \in 0..MaxLog : logsLeft' = n
    /\ UNCHANGED <<envVars, calcVars, ws, impl, process, child, answered, stdout, stderrFill, sigterm, pc, cmd,
                   closing, nWritten, nRead, lastCall, closeResult>>

\* the child writes one diagnostic unit to stderr; it blocks while the pipe is full
ChildLog ==
    /\ child = "running"
    /\ logsLeft > 0
    /\ stderrFill < PipeCap
    /\ logsLeft' = logsLeft - 1
    /\ stderrFill' = stderrFill + 1
    /\ UNCHANGED <<envVars, calcVars, ws, impl, process, child, stdin, childPending, answered, stdout, sigterm,
                   pc, cmd, closing, nWritten, nRead, lastCall, closeResult>>

\* the child answers the request it is working on with one response line
ChildRespond ==
    /\ child = "running"
    /\ childPending # NoReq
    /\ logsLeft = 0
    /\ \E k \in RespKinds :
          stdout' = Append(stdout, [for |-> childPending.seq, type |-> k[1], success |-> k[2]])
    /\ answered' = childPending.seq
    /\ childPending' = NoReq
    /\ UNCHANGED <<envVars, calcVars, ws, impl, process, child, stdin, logsLeft, stderrFill, sigterm, pc, cmd,
                   closing, nWritten, nRead, lastCall, closeResult>>

\* the child exits: after shutdown, or unexpectedly
ChildExit ==
    /\ child = "running"
    /\ child' = "exited"
    /\ UNCHANGED <<envVars, calcVars, ws, impl, process, stdin, childPending, logsLeft, answered, stdout,
                   stderrFill, sigterm, pc, cmd, closing, nWritten, nRead, lastCall,
                   closeResult>>

\* VisualGameWrapper._read_stderr: the daemon thread drains the stderr pipe
ReadStderr ==
    /\ Wrapper = "p4"
    /\ stderrFill > 0
    /\ stderrFill' = 0
    /\ UNCHANGED <<envVars, calcVars, ws, impl, process, child, stdin, childPending, logsLeft, answered, stdout,
                   sigterm, pc, cmd, closing, nWritten, nRead, lastCall, closeResult>>

\* a desynchronised child: a second response line for a request already answered
ChildExtraLine ==
    /\ child = "running"
    /\ answered > 0
    /\ Len(stdout) < MaxExtra
    /\ stdout' = Append(stdout, [for |-> answered, type |-> "response", success |-> TRUE])
    /\ UNCHANGED <<envVars, calcVars, ws, impl, process, child, stdin, childPending, logsLeft, answered,
                   stderrFill, sigterm, pc, cmd, closing, nWritten, nRead, lastCall,
                   closeResult>>

-----------------------------------------------------------------------------
Next ==
    \/ Call
    \/ ReadResponse
    \/ ReadEOF
    \/ Close
    \/ CloseWait
    \/ ChildRead
    \/ ChildLog
    \/ ChildRespond
    \/ ChildExit
    \/ ReadStderr

Spec == Init /\ [][Next]_vars

\* the same bridge against a child that may emit surplus response lines
NextDesync == Next \/ ChildExtraLine

SpecDesync == Init /\ [][NextDesync]_vars

\* a cooperative child and a scheduled caller: every enabled step but the
\* child's exit is eventually taken
SpecFair ==
    /\ Spec
    /\ WF_vars(ReadResponse)
    /\ WF_vars(ReadEOF)
    /\ WF_vars(CloseWait)
    /\ WF_vars(ChildRead)
    /\ WF_vars(ChildLog)
    /\ WF_vars(ChildRespond)
    /\ WF_vars(ReadStderr)

-----------------------------------------------------------------------------
(* The episode layer: reset() and step() *)

\* the state an environment call may change
Cur == [game |-> game, engState |-> engState, current_state |-> current_state,
        previous_state |-> previous_state, step_count |-> step_count,
        episode_count |-> episode_count, frame_buffer |-> frame_buffer,
        recent_attack_directions |-> recent_attack_directions,
        current_clusters |-> current_clusters, episode |-> episode, ret |-> ret,
        episode_return |-> episode_return, child |-> child]

\* the call ends in state r
Commit(r) ==
    /\ game' = r.game
    /\ engState' = r.engState
    /\ current_state' = r.current_state
    /\ previous_state' = r.previous_state
    /\ step_count' = r.step_count
    /\ episode_count' = r.episode_count
    /\ frame_buffer' = r.frame_buffer
    /\ recent_attack_directions' = r.recent_attack_directions
    /\ current_clusters' = r.current_clusters
    /\ episode' = r.episode
    /\ ret' = r.ret
    /\ episode_return' = r.episode_return
    /\ child' = r.child
    /\ UNCHANGED <<impl, rpcRest, calcVars, ws>>

\* the call is left by the exception of an RPC; r holds what was assigned before
Abort(r, base, cmds, answers) ==
    Commit([r EXCEPT !.child = IF answers # <<>> /\ answers[Len(answers)] = "dead"
                               THEN "exited" ELSE child,
                     !.ret = [base EXCEPT !.raised = TRUE, !.cmds = cmds,
                                          !.answers = answers]])

\* step() returns this reward and this info['episode']
Returns(r, reward, summary) ==
    IF episode_return.on
    THEN [r EXCEPT !.ret.reward = reward, !.ret.summary = summary,
                   !.episode_return.total = AddReward(@, reward)]
    ELSE r

\* a new episode: nothing has been returned yet
Restarted(r) ==
    IF episode_return.on THEN [r EXCEPT !.episode_return.total = ZeroReward] ELSE r

\* what a call records about the moment it was made
Base(op) == [NoRet EXCEPT !.op = op, !.phase = episode, !.stepBefore = step_count,
                          !.episodeBefore = episode_count]

\* the episode after a step that returned these flags
EpisodeAfter(terminated, truncated) ==
    IF episode = "Active" /\ (terminated \/ truncated) THEN "Ended" ELSE episode

\* what reset() has assigned when it sends the reset command: the counters and
\* buffers are only assigned once the command has returned
AtResetCommandMutant(r) ==
    [r EXCEPT !.game = IF impl = "phase12" THEN "created" ELSE @,
              !.step_count = 0,
              !.previous_state = NoState]

AtResetCommand(r) ==
    [r EXCEPT !.game = IF impl = "phase12" THEN "created" ELSE @]

\* OpenFrontEnv.reset and OpenFrontEnvFullGame.reset
EnvReset5 ==
    /\ impl \in {"phase5", "phase5full"}
    /\ pc = "idle"
    /\ episode_count < MaxEpisodes
    /\ IF child = "exited"
       THEN Abort(AtResetCommand(Cur), Base("reset"), <<>>, <<>>)
       ELSE \E o \in QueryAnswers :
              IF EnvRaises("reset", o)
              THEN Abort(AtResetCommand(Cur), Base("reset"), <<"reset">>, <<o>>)
              ELSE \E s \in InitialSnapshots(engState.game + 1) :
                     Commit([Restarted(AtResetCommand(Cur)) EXCEPT
                        !.engState = s,
                        !.current_state = s,
                        !.previous_state = NoState,
                        !.step_count = 0,
                        !.episode_count = episode_count + 1,
                        !.recent_attack_directions = <<>>,
                        !.current_clusters = IF impl = "phase5full" THEN s.clusters
                                             ELSE current_clusters,
                        !.frame_buffer = FillFrames(Frame(s, NoState, <<>>)),
                        !.episode = "Active",
                        !.ret = [Base("reset") EXCEPT !.cmds = <<"reset">>,
                                                      !.answers = <<o>>]])

\* OpenFrontIOEnv.reset
EnvReset12 ==
    /\ impl = "phase12"
    /\ pc = "idle"
    /\ episode_count < MaxEpisodes
    /\ LET created == AtResetCommand(Cur)
       IN IF child = "exited"
          THEN Abort(created, Base("reset"), <<>>, <<>>)
          ELSE \E o \in QueryAnswers :
                 IF EnvRaises("reset", o)
                 THEN Abort(created, Base("reset"), <<"reset">>, <<o>>)
                 ELSE \E s \in InitialSnapshots(engState.game + 1) :
                        LET after == [Restarted(created) EXCEPT
                                         !.engState = s,
                                         !.step_count = 0,
                                         !.episode_count = episode_count + 1]
                            cmds == <<"reset", "get_attackable_neighbors">>
                        IN \E o2 \in QueryAnswers :
                             IF EnvRaises("get_attackable_neighbors", o2)
                             THEN Abort(after, Base("reset"), cmds, <<o, o2>>)
                             ELSE Commit([after EXCEPT
                                     !.episode = "Active",
                                     !.ret = [Base("reset") EXCEPT
                                                 !.cmds = cmds, !.answers = <<o, o2>>]])

\* OpenFrontEnv.step
EnvStep5 ==
    /\ impl = "phase5"
    /\ pc = "idle"
    /\ step_count <= max_steps
    /\ \E a \in Actions5 :
         LET direction == a \div 5
             recent == IF direction < 8
                       THEN PushDirection(recent_attack_directions, direction)
                       ELSE recent_attack_directions
             tracked == [Cur EXCEPT !.recent_attack_directions = recent]
             base == [Base("step") EXCEPT !.prevAttackable = engState.clusters]
         IN IF child = "exited"
            THEN Abort(tracked, base, <<>>, <<>>)
            ELSE \E o1 \in ActionAnswers :
                   IF EnvRaises("attack_direction", o1)
                   THEN Abort(tracked, base, <<"attack_direction">>, <<o1>>)
                   ELSE \E o2 \in QueryAnswers :
                          IF EnvRaises("tick", o2)
                          THEN Abort(tracked, base, <<"attack_direction", "tick">>, <<o1, o2>>)
                          ELSE \E s \in Snapshots(engState.game, engState.tick + 1) :
                                 LET terminated == CheckDone(s, step_count)
                                     reward == ComputeReward5(s, step_count)
                                     summary == IF terminated
                                                THEN [attached |-> TRUE, r |-> reward,
                                                      l |-> step_count + 1,
                                                      tiles |-> s.tiles_owned,
                                                      won |-> TerritoryPct(s) >= 80,
                                                      lost |-> FALSE]
                                                ELSE NoSummary
                                 IN Commit(Returns([tracked EXCEPT
                                       !.engState = s,
                                       !.current_state = s,
                                       !.frame_buffer =
                                           PushFrame(frame_buffer, Frame(s, previous_state, recent)),
                                       !.step_count = step_count + 1,
                                       !.previous_state = s,
                                       !.episode = EpisodeAfter(terminated, FALSE),
                                       !.ret = [base EXCEPT
                                                   !.terminated = terminated,
                                                   !.truncated = FALSE,
                                                   !.cmds = <<"attack_direction", "tick">>,
                                                   !.answers = <<o1, o2>>,
                                                   !.action_success = TRUE,
                                                   !.held = s]],
                                       reward, summary))

\* OpenFrontEnvFullGame.step from game.update() on
FullTick(base, cmds, answers, success) ==
    IF child = "exited"
    THEN Abort(Cur, base, cmds, answers)
    ELSE \E o2 \in QueryAnswers :
           IF EnvRaises("tick", o2)
           THEN Abort(Cur, base, Append(cmds, "tick"), Append(answers, o2))
           ELSE \E s \in Snapshots(engState.game, engState.tick + 1) :
                  Commit(Returns([Cur EXCEPT
                     !.engState = s,
                     !.current_state = s,
                     !.step_count = step_count + 1,
                     !.frame_buffer = PushFrame(frame_buffer, Frame(s, NoState, <<>>)),
                     !.current_clusters = s.clusters,
                     !.previous_state = s,
                     !.episode = EpisodeAfter(s.game_over, FALSE),
                     !.ret = [base EXCEPT
                                 !.terminated = s.game_over,
                                 !.truncated = FALSE,
                                 !.cmds = Append(cmds, "tick"),
                                 !.answers = Append(answers, o2),
                                 !.action_success = success,
                                 !.held = s]],
                     ComputeRewardFull(s, previous_state, success), NoSummary))

\* OpenFrontEnvFullGame.step
EnvStepFull ==
    /\ impl = "phase5full"
    /\ pc = "idle"
    /\ step_count <= max_steps
    /\ \E a \in FullActions :
         LET d == Unravel(a)
             cluster_id == d[1]
             invalid == cluster_id >= current_clusters
             action_type == IF invalid THEN 8 ELSE d[2]
             building_idx == d[4]
             c1 == IF action_type <= 8 THEN "attack_direction"
                   ELSE IF action_type = 9
                        THEN (IF building_idx > 0 THEN "build_unit" ELSE "none")
                        ELSE "launch_nuke"
             base == [Base("step") EXCEPT !.invalid = invalid,
                                          !.prevAttackable = engState.clusters]
         IN IF c1 = "none"
            THEN FullTick(base, <<>>, <<>>, FALSE)
            ELSE IF child = "exited"
            THEN Abort(Cur, base, <<>>, <<>>)
            ELSE \E o1 \in ActionAnswers :
                   IF c1 = "attack_direction" /\ EnvRaises(c1, o1)
                   THEN Abort(Cur, base, <<c1>>, <<o1>>)
                   ELSE IF o1 = "dead"
                   THEN \* build/launch: the RuntimeError is caught, update() raises
                        Abort(Cur, base, <<c1>>, <<o1>>)
                   ELSE FullTick(base, <<c1>>, <<o1>>, o1 = "ok")

\* OpenFrontIOEnv.step from game.tick() on
\* OpenFrontIOEnv.step: terminated, from the snapshot of the tick and a list of
\* attackable neighbours
Terminated12(s, neighbors) ==
    LET flagged == s.game_over \/ s.has_won \/ s.has_lost
        stalemate == ~flagged /\ neighbors = 0 /\ s.tiles_owned > 0
    IN flagged \/ stalemate

\* OpenFrontIOEnv.step: state_after as the step holds it when it builds the
\* observation and info; a stalemate sets state_after['has_lost']
StateAfter(s, neighbors) ==
    IF ~(s.game_over \/ s.has_won \/ s.has_lost) /\ neighbors = 0 /\ s.tiles_owned > 0
    THEN [s EXCEPT !.has_lost = TRUE]
    ELSE s

Step12Tick(counted, base, cmds, answers, neighbors, taken) ==
    \E o4 \in QueryAnswers :
      IF EnvRaises("tick", o4)
      THEN Abort(counted, base, Append(cmds, "tick"), Append(answers, o4))
      ELSE \E s \in Snapshots(engState.game, engState.tick + 1) :
             LET terminated == Terminated12(s, neighbors)
                 truncated == counted.step_count >= max_steps /\ ~terminated
                 after == [counted EXCEPT !.engState = s]
                 reward == CalculateReward(engState, s, taken, counted.step_count)
                 summary == IF terminated \/ truncated
                            THEN [attached |-> TRUE, r |-> reward,
                                  l |-> counted.step_count,
                                  tiles |-> s.tiles_owned, won |-> s.has_won,
                                  lost |-> StateAfter(s, neighbors).has_lost]
                            ELSE NoSummary
                 cmds5 == cmds \o <<"tick", "get_attackable_neighbors">>
             IN \E o5 \in QueryAnswers :
                  IF EnvRaises("get_attackable_neighbors", o5)
                  THEN Abort(after, base, cmds5, answers \o <<o4, o5>>)
                  ELSE Commit(Returns([after EXCEPT
                          !.episode = EpisodeAfter(terminated, truncated),
                          !.ret = [base EXCEPT
                                      !.terminated = terminated,
                                      !.truncated = truncated,
                                      !.cmds = cmds5,
                                      !.answers = answers \o <<o4, o5>>,
                                      !.action_success = taken,
                                      !.held = StateAfter(s, neighbors)]],
                          reward, summary))

\* OpenFrontIOEnv.step
EnvStep12 ==
    /\ impl = "phase12"
    /\ pc = "idle"
    /\ step_count <= max_steps
    /\ \E a \in Actions12 :
         LET base == [Base("step") EXCEPT !.prevAttackable = engState.neighbors]
             counted == [Cur EXCEPT !.step_count = step_count + 1]
             q == <<"get_state", "get_attackable_neighbors">>
         IN IF game = "none"
            THEN Abort(Cur, base, <<>>, <<>>)
            ELSE IF child = "exited"
            THEN Abort(counted, base, <<>>, <<>>)
            ELSE \E o1 \in QueryAnswers :
                   IF EnvRaises("get_state", o1)
                   THEN Abort(counted, base, <<"get_state">>, <<o1>>)
                   ELSE \E o2 \in QueryAnswers :
                          IF EnvRaises("get_attackable_neighbors", o2)
                          THEN Abort(counted, base, q, <<o1, o2>>)
                          ELSE LET neighbors == engState.neighbors
                                   shown == IF neighbors < 8 THEN neighbors ELSE 8
                                   target == IF a[1] = 0 \/ a[1] <= shown THEN a[1] ELSE 0
                                   taken == target # 0 /\ a[2] >= 1
                               IN IF taken
                                  THEN \E o3 \in ActionAnswers :
                                         IF EnvRaises("attack_tile", o3)
                                         THEN Abort(counted, base, Append(q, "attack_tile"),
                                                    <<o1, o2, o3>>)
                                         ELSE Step12Tick(counted, base, Append(q, "attack_tile"),
                                                         <<o1, o2, o3>>, neighbors, TRUE)
                                  ELSE Step12Tick(counted, base, q, <<o1, o2>>, neighbors, FALSE)

EnvInit ==
    /\ impl \in {"phase12", "phase5", "phase5full"}
    /\ BridgeInit
    /\ EnvInitState
    /\ CalcIdle
    /\ Untracked
    /\ ServerIdle

EnvNext ==
    \/ EnvReset12
    \/ EnvReset5
    \/ EnvStep12
    \/ EnvStep5
    \/ EnvStepFull

EnvSpec == EnvInit /\ [][EnvNext]_vars

\* the same calls, with the rewards of the episode followed
RewardInit ==
    /\ impl \in {"phase12", "phase5", "phase5full"}
    /\ BridgeInit
    /\ EnvInitState
    /\ CalcIdle
    /\ Tracked
    /\ ServerIdle

RewardSpec == RewardInit /\ [][EnvNext]_vars

-----------------------------------------------------------------------------
(* The request/response discipline of _send_command *)

InFlight == Len(stdin) + (IF childPending = NoReq THEN 0 ELSE 1) + Len(stdout)

\* C1 as stated: every finished RPC call wrote exactly one request line and
\* then read exactly one response line, the one answering its own request,
\* and no request is written while a response is outstanding.
C1_EveryCallWritesOneReadsOne ==
    /\ nWritten - nRead <= 1
    /\ lastCall.outcome # "none" =>
          /\ lastCall.wrote = 1
          /\ lastCall.read = 1
          /\ lastCall.resp = lastCall.seq

\* C1 amended: at most one request is ever outstanding, and every finished
\* RPC call either wrote one request line and read one response line, the
\* one answering its own request, or raised without consuming any response
\* line because the child had exited or the handle was gone.
C1_OneRequestOneResponse ==
    /\ nWritten - nRead <= 1
    /\ InFlight <= 1
    /\ lastCall.outcome # "none" =>
          \/ /\ lastCall.wrote = 1
             /\ lastCall.read = 1
             /\ lastCall.resp = lastCall.seq
          \/ /\ lastCall.outcome = "raised"
             /\ lastCall.read = 0
             /\ lastCall.resp = 0
             /\ (child = "exited" \/ process = "none")

\* the second call of a behaviour has returned the response to request 2
C1_Witness ==
    /\ lastCall.seq = 2
    /\ lastCall.outcome = "returned"
    /\ lastCall.resp = 2
    /\ nRead = 2

\* C2: every RPC call that has written its request eventually stops waiting
\* for the response (it returns or raises), whatever the child writes to its
\* stderr pipe.
C2_EveryCallEnds == (pc = "sent") ~> (pc # "sent")

\* the caller is blocked in readline while the live child is blocked on its
\* full stderr pipe
C2_Witness ==
    /\ pc = "sent"
    /\ child = "running"
    /\ childPending # NoReq
    /\ logsLeft > 0
    /\ stderrFill = PipeCap
    /\ Wrapper # "p4"

\* C3: no RPC call returns a response line that the child produced in answer
\* to an earlier request.
C3_NoStaleResponse ==
    lastCall.outcome = "returned" => lastCall.resp = lastCall.seq

\* C4: whenever close() has ended, it has returned, the process handle is
\* released and the child process is terminated.
C4_CloseTerminates ==
    closeResult # "none" =>
        /\ closeResult = "returned"
        /\ process = "none"
        /\ child = "exited"


-----------------------------------------------------------------------------
(* The episode contract of reset() and step() *)

Range(seq) == { seq[i] : i \in 1..Len(seq) }

\* how many times the call commanded a tick
Ticks(cmds) == Cardinality({ i \in 1..Len(cmds) : cmds[i] = "tick" })

\* the last call was reset() and its reset RPC succeeded
ResetSucceeded ==
    /\ ret.op = "reset"
    /\ ret.answers # <<>>
    /\ ~EnvRaises("reset", ret.answers[1])

\* the last call was step() on an Active episode
StepCalled == ret.op = "step" /\ ret.phase = "Active"

\* ... and it returned
StepReturned == StepCalled /\ ~ret.raised

\* the attackable positions a snapshot lists
Attackable(s) == IF impl = "phase12" THEN s.neighbors ELSE s.clusters

\* the game process answered every command the last call sent, and did not
\* refuse the tick
EngineAnswered ==
    /\ ret.cmds # <<>>
    /\ "dead" \notin Range(ret.answers)
    /\ \A i \in 1..Len(ret.answers) : ret.cmds[i] = "tick" => ret.answers[i] = "ok"

C6_TerminatedExactly ==
    StepReturned =>
        (ret.terminated <=>
            \/ engState.game_over
            \/ engState.has_won
            \/ engState.has_lost
            \/ /\ impl # "phase5"
               /\ engState.tiles_owned > 0
               /\ ret.prevAttackable = 0
               /\ Attackable(engState) = 0)

\* C7: where there is a step limit, a step that returns has truncated = TRUE
\* exactly when the step count has reached the limit and the step is not
\* terminated; never both flags; the limit alone never terminates
C7_TruncatedExactly ==
    (StepReturned /\ impl \in {"phase12", "phase5"}) =>
        /\ ret.truncated <=> (step_count >= max_steps /\ ~ret.terminated)
        /\ ~(ret.terminated /\ ret.truncated)

\* C8: a step() called while the episode is not Active (before the first
\* reset, or after a step returned terminated or truncated) raises, sends no
\* command and leaves the step count as it was
C8_StepOnlyWhenActive ==
    (ret.op = "step" /\ ret.phase # "Active") =>
        /\ ret.raised
        /\ ret.cmds = <<>>
        /\ step_count = ret.stepBefore

\* C9: a step() whose decoded cluster index is not below the number of
\* clusters returns, with exactly one tick, whatever the game process answers
\* to the action command
C9_InvalidClusterNeverRaises ==
    (StepCalled /\ ret.invalid /\ EngineAnswered) =>
        /\ ~ret.raised
        /\ Ticks(ret.cmds) = 1

\* the commands that carry the agent's action
ActionCommands == {"attack_direction", "build_unit", "launch_nuke"}

\* the game process refused the action of the last step (success = false)
ActionRefused ==
    /\ StepCalled
    /\ impl \in {"phase5", "phase5full"}
    /\ ret.cmds # <<>>
    /\ ret.cmds[1] \in ActionCommands
    /\ ret.answers[1] = "fail"

\* C10: a step() whose action the game refuses returns all the same, with
\* exactly one tick and, where the step reports it, action_success = FALSE
C10_ActionFailureAbsorbed ==
    (ActionRefused /\ EngineAnswered) =>
        /\ ~ret.raised
        /\ Ticks(ret.cmds) = 1
        /\ ~ret.action_success


-----------------------------------------------------------------------------
(* Remote errors and refused actions at the RPC boundary *)

\* the last _send_command read a response line carrying the error marker
ErrorMarkerRead == lastCall.why = "response" /\ lastCall.type = "error"

\* the last _send_command read a response line with success = false and no
\* error marker
RefusalRead ==
    /\ lastCall.why = "response"
    /\ lastCall.type = "response"
    /\ ~lastCall.success

\* C11: a reset or tick answered with the error marker raises (it is never
\* returned), and a build_unit or launch_nuke answered with success = false
\* is returned (it never raises)
C11_ErrorRaisedRefusalReturned ==
    /\ (ErrorMarkerRead /\ lastCall.command \in {"reset", "tick"}) =>
          lastCall.outcome = "raised"
    /\ (RefusalRead /\ lastCall.command \in {"build_unit", "launch_nuke"}) =>
          lastCall.outcome = "returned"

\* the phase5 wrapper has returned a refused build_unit, its second request
C11_Witness ==
    /\ Wrapper = "p5"
    /\ RefusalRead
    /\ lastCall.command = "build_unit"
    /\ lastCall.outcome = "returned"
    /\ lastCall.seq = 2


-----------------------------------------------------------------------------
(* OpenFrontEnvFullGame.action_masks *)

\* range(n)
RangeOf(n) == 0 .. (n - 1)

\* the indices of dimension i of the action space
Dim(i) == RangeOf(action_dims[i])

\* what action_masks reads: self.game, len(self.current_clusters), and the
\* capability fields of the cached snapshot
MaskInputs ==
    [fn : {"action_masks"}, game : {"created"},
     num_clusters : 0 .. (action_dims[1] + 1),
     can_build_city : BOOLEAN, can_build_port : BOOLEAN, can_build_silo : BOOLEAN,
     can_build_sam : BOOLEAN, can_launch_nuke : BOOLEAN,
     atom_bombs_available : {0, 1}, hydrogen_bombs_available : {0, 1}]

\* the entries set True for one existing cluster, as
\* (cluster, action_type, intensity, building, nuke, tile)
ClusterMask(in, cluster_id) ==
    LET attack == { <<cluster_id, direction, intensity, 0, 0, 0>> :
                       direction \in RangeOf(9), intensity \in Dim(3) }
        build(flag, building) ==
            IF flag THEN { <<cluster_id, 9, 0, building, 0, tile>> : tile \in Dim(6) }
            ELSE {}
        nuke(count, nuke_idx) ==
            IF in.can_launch_nuke /\ count > 0
            THEN { <<cluster_id, 10, 0, 0, nuke_idx, tile>> : tile \in Dim(6) }
            ELSE {}
    IN attack
         \cup build(in.can_build_city, 1)
         \cup build(in.can_build_port, 2)
         \cup build(in.can_build_silo, 3)
         \cup build(in.can_build_sam, 4)
         \cup build(in.can_build_sam, 5)
         \cup build(in.can_build_sam, 6)
         \cup nuke(in.atom_bombs_available, 0)
         \cup nuke(in.hydrogen_bombs_available, 1)

\* action_masks(): the set of entries of the 6-dimensional mask that are True
ActionMasks(in) ==
    IF in.game = "none"
    THEN { <<c, d, i, 0, 0, t>> : c \in Dim(1), d \in RangeOf(9), i \in Dim(3), t \in Dim(6) }
    ELSE LET existing == IF in.num_clusters < action_dims[1] THEN in.num_clusters
                         ELSE action_dims[1]
         IN UNION { ClusterMask(in, cluster_id) : cluster_id \in RangeOf(existing) }

\* action_masks() is called on the state calcIn describes
ActionMasksCall ==
    /\ calcIn.fn = "action_masks"
    /\ calcOut = NoOutput
    /\ calcOut' = [fn |-> "action_masks", mask |-> ActionMasks(calcIn)]
    /\ UNCHANGED <<impl, rpcVars, envVars, calcIn, ws>>

-----------------------------------------------------------------------------
(* The flat-action codec of OpenFrontEnvFullGame *)

\* action_space = spaces.Discrete(38500)
action_space_n == 38500

\* the shape of the array action_masks() flattens
mask_shape == <<5, 11, 5, 7, 2, 10>>

RECURSIVE Product(_)
\* the number of entries of an array of this shape
Product(shape) == IF shape = <<>> THEN 1 ELSE Head(shape) * Product(Tail(shape))

RECURSIVE RavelFrom(_, _)
RavelFrom(multi, i) ==
    IF i > Len(action_dims) THEN 0 ELSE multi[i] * Stride(i) + RavelFrom(multi, i + 1)

\* np.ravel_multi_index(multi_action, action_shape)
Ravel(multi) == RavelFrom(multi, 1)

\* every flat action of the action space
DecodeInputs == [fn : {"decode"}, action : RangeOf(action_space_n)]

\* every structured action within the dimensions
EncodeInputs ==
    [fn : {"encode"},
     multi : { <<c, t, i, b, n, l>> : c \in Dim(1), t \in Dim(2), i \in Dim(3),
                                     b \in Dim(4), n \in Dim(5), l \in Dim(6) }]

\* step() decodes the flat action; the structured action is encoded again
DecodeCall ==
    /\ calcIn.fn = "decode"
    /\ calcOut = NoOutput
    /\ LET multi == Unravel(calcIn.action)
       IN calcOut' = [fn |-> "decode", multi |-> multi, flat |-> Ravel(multi)]
    /\ UNCHANGED <<impl, rpcVars, envVars, calcIn, ws>>

\* a structured action is encoded; step() decodes the flat action
EncodeCall ==
    /\ calcIn.fn = "encode"
    /\ calcOut = NoOutput
    /\ LET flat == Ravel(calcIn.multi)
       IN calcOut' = [fn |-> "encode", flat |-> flat, multi |-> Unravel(flat)]
    /\ UNCHANGED <<impl, rpcVars, envVars, calcIn, ws>>

-----------------------------------------------------------------------------
(* The shape of an observation: _extract_map, _adaptive_downsample,          *)
(* _extract_map_features, _stack_frames                                      *)

\* heights and widths of a territory map: smaller than 128, 128, larger and
\* a multiple of the pooling block or not, beyond every pooling branch
MapSizes == {64, 128, 200, 256, 257, 512, 1100}

\* an array that numpy could not build
ValueError == [ok |-> FALSE, shape |-> <<>>]

Shape2(h, w) == [ok |-> TRUE, shape |-> <<h, w>>]

Smaller(a, b) == IF a < b THEN a ELSE b

Larger(a, b) == IF a > b THEN a ELSE b

\* array.reshape(h // k, k, w // k, k).mean(axis=(1, 3))[:128, :128]
Pool(h, w, k) ==
    IF (h \div k) * k * (w \div k) * k = h * w
    THEN Shape2(Smaller(h \div k, 128), Smaller(w \div k, 128))
    ELSE ValueError

\* len(range(0, n, stride))
StridedLen(n, stride) == (n + stride - 1) \div stride

\* OpenFrontEnv._adaptive_downsample: the shape of what it returns
AdaptiveDownsample(h, w) ==
    IF h = 128 /\ w = 128 THEN Shape2(h, w)
    ELSE IF h < 128 \/ w < 128 THEN Shape2(128, 128)
    ELSE LET big == Larger(h, w)       \* scale = big / 128
         IN IF big <= 2 * 128 THEN Pool(h, w, 2)
            ELSE IF big <= 4 * 128 THEN Pool(h, w, 4)
            ELSE IF big <= 8 * 128 THEN Pool(h, w, 8)
            ELSE LET stride == big \div 128
                 IN Shape2(Smaller(StridedLen(h, stride), 128),
                           Smaller(StridedLen(w, stride), 128))

\* map_feat[:, :, c] = value: numpy broadcasts the value or raises
Assignable(value) ==
    /\ value.ok
    /\ value.shape[1] \in {1, 128}
    /\ value.shape[2] \in {1, 128}

\* GameState._compute_derived_features: the shape of the masks; an empty
\* territory_map gives the default 512 x 512 masks
MaskShape(h, w) == IF h * w > 0 THEN <<h, w>> ELSE <<512, 512>>

\* OpenFrontEnv._extract_map: the shape of the single frame, or ValueError
ExtractMap(h, w) ==
    LET mask == MaskShape(h, w)
    IN IF Assignable(AdaptiveDownsample(mask[1], mask[2]))
       THEN [ok |-> TRUE, shape |-> <<128, 128, 5>>]
       ELSE ValueError

\* scipy.ndimage.zoom: round(n * (128 / n))
Zoomed(n) == (2 * n * 128 + n) \div (2 * n)

\* OpenFrontEnvFullGame._extract_map_features: the shape of the single frame,
\* or ValueError when the empty map has no (h, w) to unpack
ExtractMapFeatures(h, w) ==
    IF h * w = 0 THEN ValueError
    ELSE LET zoomed == IF h > 128 \/ w > 128 THEN <<Zoomed(h), Zoomed(w)>> ELSE <<h, w>>
             padded == IF zoomed[1] < 128 \/ zoomed[2] < 128 THEN <<128, 128>> ELSE zoomed
         IN IF padded = <<128, 128>>
            THEN [ok |-> TRUE, shape |-> <<128, 128, 16>>]
            ELSE ValueError

\* the length of the single-frame global vector
GlobalLen(env) == IF env = "phase5" THEN 16 ELSE 32

\* channels of the single-frame map
Channels(env) == IF env = "phase5" THEN 5 ELSE 16

\* _stack_frames over a full buffer: np.concatenate along axis 2
StackFrames(frame, n) == <<frame[1], frame[2], frame[3] * n>>

\* a snapshot whose territory map is h x w (0 x 0: the empty map)
ObserveInputs ==
    [fn : {"observe"}, env : {"phase5", "phase5full"}, h : MapSizes, w : MapSizes]
      \cup [fn : {"observe"}, env : {"phase5", "phase5full"}, h : {0}, w : {0}]

\* reset()/step() build the observation of that snapshot
ObserveCall ==
    /\ calcIn.fn = "observe"
    /\ calcOut = NoOutput
    /\ LET frame == IF calcIn.env = "phase5" THEN ExtractMap(calcIn.h, calcIn.w)
                    ELSE ExtractMapFeatures(calcIn.h, calcIn.w)
       IN calcOut' = IF frame.ok
                     THEN [fn |-> "observe", raised |-> FALSE,
                           map |-> StackFrames(frame.shape, frame_stack),
                           global |-> <<GlobalLen(calcIn.env) * frame_stack>>]
                     ELSE [fn |-> "observe", raised |-> TRUE, map |-> <<>>, global |-> <<>>]
    /\ UNCHANGED <<impl, rpcVars, envVars, calcIn, ws>>

\* the values self.step_count takes
StepCounts == 0..max_steps

\* the snapshots before and after a tick, whether an action was taken, and the
\* step counter of the environment at the time of the computation
RewardInputs ==
    [fn : {"reward"}, env : {"phase12", "phase5", "phase5full", "clusters"},
     state_before : {s \in Snapshots(1, 1) : s.clusters = 0},
     state_after : {s \in Snapshots(1, 2) : s.clusters = 0},
     action_taken : BOOLEAN, step_count : StepCounts]

\* the reward step() computes from these arguments in that environment
RewardOf(in) ==
    CASE in.env = "phase12" ->
           CalculateReward(in.state_before, in.state_after, in.action_taken, in.step_count)
      [] in.env = "phase5" -> ComputeReward5(in.state_after, in.step_count)
      [] in.env = "phase5full" ->
           ComputeRewardFull(in.state_after, in.state_before, in.action_taken)
      [] in.env = "clusters" -> ComputeRewardClusters(in.state_after, in.state_before)

\* step() computes the reward
RewardCall ==
    /\ calcIn.fn = "reward"
    /\ calcOut = NoOutput
    /\ calcOut' = [fn |-> "reward", reward |-> RewardOf(calcIn)]
    /\ UNCHANGED <<impl, rpcVars, envVars, calcIn, ws>>

\* OpenFrontEnv._adaptive_downsample: the branch it takes and the block size
\* or stride it uses
AdaptiveStrategy(h, w) ==
    IF h = 128 /\ w = 128 THEN [kind |-> "copy", block |-> 1]
    ELSE IF h < 128 \/ w < 128 THEN [kind |-> "pad", block |-> 1]
    ELSE LET big == Larger(h, w)       \* scale = big / 128
         IN IF big <= 2 * 128 THEN [kind |-> "pool", block |-> 2]
            ELSE IF big <= 4 * 128 THEN [kind |-> "pool", block |-> 4]
            ELSE IF big <= 8 * 128 THEN [kind |-> "pool", block |-> 8]
            ELSE [kind |-> "stride", block |-> big \div 128]

\* the multiscale environment's _downsample_to_size(array, 128, 128)
DownsampleToSizeStrategy(h, w) ==
    IF h = 128 /\ w = 128 THEN [kind |-> "copy", block |-> 1]
    ELSE IF h < 128 \/ w < 128 THEN [kind |-> "pad", block |-> 1]
    ELSE LET big == Larger(h, w)
         IN [kind |-> "stride",
             block |-> IF big <= 2 * 128 THEN 2
                       ELSE IF big <= 4 * 128 THEN 4
                       ELSE IF big <= 8 * 128 THEN 8
                       ELSE big \div 128]

\* the sizes of the array a downsampling routine is given
DownsampleInputs ==
    [fn : {"downsample"}, routine : {"_adaptive_downsample", "_downsample_to_size"},
     h : MapSizes, w : MapSizes]

\* one call of a downsampling routine
DownsampleCall ==
    /\ calcIn.fn = "downsample"
    /\ calcOut = NoOutput
    /\ calcOut' = [fn |-> "downsample",
                   strategy |-> IF calcIn.routine = "_adaptive_downsample"
                                THEN AdaptiveStrategy(calcIn.h, calcIn.w)
                                ELSE DownsampleToSizeStrategy(calcIn.h, calcIn.w)]
    /\ UNCHANGED <<impl, rpcVars, envVars, calcIn, ws>>

\* the arguments a computation may be given
CalcInputs ==
    MaskInputs \cup DecodeInputs \cup EncodeInputs \cup ObserveInputs \cup RewardInputs
      \cup DownsampleInputs

CalcInit ==
    /\ impl = "phase5full"
    /\ BridgeInit
    /\ EnvInitState
    /\ calcIn \in CalcInputs
    /\ calcOut = NoOutput
    /\ Untracked
    /\ ServerIdle

CalcNext ==
    \/ ActionMasksCall
    \/ DecodeCall
    \/ EncodeCall
    \/ ObserveCall
    \/ RewardCall
    \/ DownsampleCall

CalcSpec == CalcInit /\ [][CalcNext]_vars

\* action_masks() has returned
MaskComputed == calcOut.fn = "action_masks"

\* the cluster slots that hold a cluster
ExistingClusters ==
    { c \in Dim(1) : c < calcIn.num_clusters }

\* C12: the mask is never trivial: for every existing cluster some Wait
\* (action type 8) entry is valid, and with no cluster at all the mask still
\* has a valid entry, a Wait and nothing else
C12_MaskNeverEmpty ==
    MaskComputed =>
        /\ \A c \in ExistingClusters :
              \E e \in calcOut.mask : e[1] = c /\ e[2] = 8
        /\ calcIn.num_clusters = 0 =>
              /\ calcOut.mask # {}
              /\ \A e \in calcOut.mask : e[2] = 8

\* the snapshot's own flag for building type b (1 City, 2 Port, 3 Missile
\* Silo, 4 SAM Launcher); it has none for 5 Defense Post and 6 Factory
PrerequisiteFlag(in, b) ==
    CASE b = 1 -> in.can_build_city
      [] b = 2 -> in.can_build_port
      [] b = 3 -> in.can_build_silo
      [] b = 4 -> in.can_build_sam
      [] OTHER -> FALSE

\* the snapshot's inventory of nuke type k (0 Atom Bomb, 1 Hydrogen Bomb)
Inventory(in, k) ==
    IF k = 0 THEN in.atom_bombs_available ELSE in.hydrogen_bombs_available

\* C13: an entry is valid only if its cluster exists, and for a Build (type
\* 9) the snapshot's flag for that building type is true, and for a
\* LaunchNuke (type 10) the inventory of that nuke type is positive
C13_MaskOnlyValid ==
    MaskComputed =>
        \A e \in calcOut.mask :
            /\ e[1] < calcIn.num_clusters
            /\ e[2] = 9 => PrerequisiteFlag(calcIn, e[4])
            /\ e[2] = 10 => Inventory(calcIn, e[5]) > 0


C15_ObservationShape ==
    calcOut.fn = "observe" =>
        /\ ~calcOut.raised
        /\ calcOut.map = <<128, 128, Channels(calcIn.env) * frame_stack>>
        /\ calcOut.global = <<GlobalLen(calcIn.env) * frame_stack>>


-----------------------------------------------------------------------------
(* The frame buffer as a FIFO *)

RECURSIVE Stack(_)
\* _stack_frames: np.concatenate of the frames in buffer order (each frame
\* is one block of the stacked observation)
Stack(buf) == IF buf = <<>> THEN <<>> ELSE <<Head(buf)>> \o Stack(Tail(buf))

\* a step of an Active phase5 episode has returned, the frame_stack-th of the
\* episode or a later one
StackTurnedOver ==
    /\ StepReturned
    /\ impl \in {"phase5", "phase5full"}
    /\ step_count >= frame_stack

\* C16: after frame_stack consecutive steps the stacked observation holds
\* exactly the single frames of the last frame_stack steps, oldest first: its
\* first block is the frame produced frame_stack steps back (the step just
\* returned counting as one), its last block the frame of the step just
\* returned
C16_FrameFifo ==
    StackTurnedOver =>
        LET stacked == Stack(frame_buffer)
        IN /\ Len(stacked) = frame_stack
           /\ \A i \in 1..Len(stacked) :
                 /\ stacked[i].game = engState.game
                 /\ stacked[i].tick = engState.tick - frame_stack + i

\* the frames of reset() have all been pushed out
C16_Witness ==
    /\ StackTurnedOver
    /\ Len(frame_buffer) = frame_stack
    /\ frame_buffer[1].tick = 1
    /\ engState.tick = frame_stack


\* ---- the end of an episode

\* step() returned info with an 'episode' entry
SummaryAttached == ret.summary.attached

\* the environment's own notion of a won game
WinFlag == IF impl = "phase5" THEN TerritoryPct(engState) >= 80 ELSE engState.has_won

\* C18: no step() returns terminated = False together with a post-tick
\* snapshot in which the player owns zero tiles.
C18_NoTilesTerminated ==
    (StepReturned /\ engState.tiles_owned = 0) => ret.terminated

\* C17: the info of a returned step carries an episode summary exactly when
\* terminated or truncated is True; the summary's reward is the sum of the
\* rewards returned since the last reset, its length the number of steps taken
\* since the last reset, and it carries the final tile count and the win flag.
C17_EpisodeSummary ==
    StepReturned =>
        /\ SummaryAttached <=> (ret.terminated \/ ret.truncated)
        /\ SummaryAttached =>
              /\ ret.summary.r = episode_return.total
              /\ ret.summary.l = step_count
              /\ ret.summary.tiles = engState.tiles_owned
              /\ ret.summary.won = WinFlag

\* C19: a returned step whose post-tick snapshot has has_won set returns
\* terminated = True and a reward the win bonus entered.
C19_WinTerminatesWithBonus ==
    (StepReturned /\ impl \in {"phase12", "phase5full"} /\ engState.has_won) =>
        /\ ret.terminated
        /\ ret.reward.win = 1

\* ---- the reward as a function of its arguments

\* the reward has been computed
RewardComputed == calcOut.fn = "reward"

\* C20: the reward depends on the snapshot before, the snapshot after and
\* the action-taken flag alone: computed from the same three with any other
\* value of the step counter, it is the same reward.
C20_RewardDeterministic ==
    RewardComputed =>
        \A sc \in StepCounts : RewardOf([calcIn EXCEPT !.step_count = sc]) = calcOut.reward

\* the tiles gained between the two snapshots of a reward computation
Gained(in) == in.state_after.tiles_owned - in.state_before.tiles_owned

\* two reward computations differ in the tiles owned before and after at most
SameButTerritory(a, b) ==
    /\ a.env = b.env
    /\ a.action_taken = b.action_taken
    /\ a.step_count = b.step_count
    /\ [a.state_before EXCEPT !.tiles_owned = 0] = [b.state_before EXCEPT !.tiles_owned = 0]
    /\ [a.state_after EXCEPT !.tiles_owned = 0] = [b.state_after EXCEPT !.tiles_owned = 0]

\* the environments whose reward has a territory term
TerritoryRewarded == {"phase12", "phase5full", "clusters"}

\* C21: of two reward computations of one environment that differ only in
\* the territory gained between the two snapshots, the one with more territory
\* gained returns the strictly larger reward.
C21_RewardIncreasingInTerritory ==
    (RewardComputed /\ calcIn.env \in TerritoryRewarded) =>
        \A other \in RewardInputs :
            (SameButTerritory(calcIn, other) /\ Gained(other) > Gained(calcIn)) =>
                Value(other.env, RewardOf(other)) > Value(calcIn.env, calcOut.reward)

\* ---- the child exits under a request

\* the last _send_command found the child gone where it expected the response line
ExitedBeforeResponse == lastCall.why = "eof"

\* C22: a _send_command whose child exits before writing the response line
\* raises, returns no response, and the error it raises quotes the stderr text
\* the child left in the pipe.
C22_ExitRaisesWithStderr ==
    ExitedBeforeResponse =>
        /\ lastCall.outcome = "raised"
        /\ lastCall.read = 0
        /\ lastCall.withStderr
        /\ stderrFill = 0

\* ---- a reset whose reset command fails

\* reset() was left by the exception of its reset command
ResetRpcFailed ==
    /\ ret.op = "reset"
    /\ ret.raised
    /\ \/ ret.cmds = <<>>
       \/ EnvRaises("reset", ret.answers[1])

\* the reset commands a call sent
ResetsSent == Cardinality({i \in DOMAIN ret.cmds : ret.cmds[i] = "reset"})

\* C23: a reset() whose reset command fails raises, has sent the reset
\* command at most once, and leaves the step count, the episode count, the
\* previous snapshot, the recent attack directions, the frame buffer and the
\* wrapper's cached snapshot as they were before the call.
C23_FailedResetChangesNothing ==
    [][ResetRpcFailed' =>
          /\ ResetsSent' <= 1
          /\ UNCHANGED <<step_count, episode_count, previous_state,
                         recent_attack_directions, frame_buffer, current_state>>]_vars

\* a reset fails on its reset command after an episode has run
C23_Witness ==
    /\ ResetRpcFailed
    /\ ret.cmds = <<"reset">>
    /\ step_count > 0
    /\ episode_count > 0
    /\ previous_state.valid
    /\ frame_buffer # <<>>

\* ---- what a step reads

\* every command that acts on the game
GameActions == ActionCommands \cup {"attack_tile"}

\* the action command of the call, if any, precedes every tick
ActionBeforeTick ==
    \A i, j \in DOMAIN ret.cmds :
        (ret.cmds[i] \in GameActions /\ ret.cmds[j] = "tick") => i < j

\* the newest frame of the observation is the frame of the tick's snapshot
ObservesTick ==
    impl \in {"phase5", "phase5full"} =>
        /\ frame_buffer # <<>>
        /\ frame_buffer[Len(frame_buffer)].game = engState.game
        /\ frame_buffer[Len(frame_buffer)].tick = engState.tick

\* the terminal terms of the reward are those of the tick's snapshot
RewardsTick ==
    CASE impl = "phase12" ->
           /\ ret.reward.win = Ind(engState.has_won)
           /\ ret.reward.loss = Ind(~engState.has_won /\ engState.has_lost)
      [] impl = "phase5" -> ret.reward.win = Ind(TerritoryPct(engState) >= 80)
      [] OTHER -> ret.reward.win = 1 => (engState.game_over /\ engState.has_won)

\* terminated is what the decision gives when all it reads of the game is the
\* tick's snapshot
TerminatesOnTick ==
    CASE impl = "phase12" -> ret.terminated = Terminated12(engState, engState.neighbors)
      [] impl = "phase5" -> ret.terminated = CheckDone(engState, ret.stepBefore)
      [] OTHER -> ret.terminated = engState.game_over

\* C24: a returned step has sent its action command, if any, before the tick
\* and exactly one tick, and its observation, the current snapshot of its
\* reward and every input of its termination decision come from the snapshot
\* of that tick.
C24_StepReadsItsTick ==
    StepReturned =>
        /\ ActionBeforeTick
        /\ Ticks(ret.cmds) = 1
        /\ ObservesTick
        /\ RewardsTick
        /\ TerminatesOnTick

\* ---- the strategy of the downsampling routine

\* a downsampling routine has run
Downsampled == calcOut.fn = "downsample"

\* n / d rounded to the nearest integer (no size of MapSizes falls on a half)
Round(n, d) == (2 * n + d) \div (2 * d)

\* C25: with s = max(h, w) / 128, a source smaller than the target is
\* zero-padded, a source of the target's size is copied, for 1 < s <= 8 the
\* routine pools blocks of round(s), and for s > 8 it samples every
\* round(s)-th row and column.
C25_DownsampleStrategy ==
    Downsampled =>
        LET h == calcIn.h
            w == calcIn.w
            big == Larger(h, w)
            strategy == calcOut.strategy
        IN /\ (h < 128 /\ w < 128) => strategy.kind = "pad"
           /\ (h = 128 /\ w = 128) => strategy.kind = "copy"
           /\ (h >= 128 /\ w >= 128 /\ big > 128 /\ big <= 8 * 128) =>
                 strategy = [kind |-> "pool", block |-> Round(big, 128)]
           /\ (h >= 128 /\ w >= 128 /\ big > 8 * 128) =>
                 strategy = [kind |-> "stride", block |-> Round(big, 128)]

\* ---- snapshots are replaced, not written to

\* C26: the snapshot a returned step holds when it builds its observation
\* and info is the snapshot as its tick produced it: no field of it has been
\* written since.
C26_SnapshotNeverMutated ==
    StepReturned => ret.held = engState

\* ---- the outcome reported and the terminal reward paid

\* a step of OpenFrontIOEnv has returned
Step12Returned == StepReturned /\ impl = "phase12"

\* C27: in OpenFrontIOEnv, a step whose episode summary reports lost = True
\* has the loss penalty in its reward, and the timeout penalty is in the reward
\* of a step exactly when that step returns truncated = True.
C27_OutcomeMatchesReward ==
    Step12Returned =>
        /\ (SummaryAttached /\ ret.summary.lost) => ret.reward.loss = 1
        /\ ret.reward.timeout = 1 <=> ret.truncated

\* ---- the step limit of OpenFrontEnv

\* a step of OpenFrontEnv has returned
Step5Returned == StepReturned /\ impl = "phase5"

\* the territory of the tick's snapshot ends the episode by itself
TerritoryDecides == TerritoryPct(engState) >= 80 \/ TerritoryPct(engState) = 0

\* C28: in OpenFrontEnv, counting the steps returned since the last reset,
\* the step that reaches the step limit ends the episode, and has the timeout
\* penalty in its reward when the territory did not end the episode on that
\* step; no step of a running episode is counted beyond the limit, and the
\* length a summary reports does not exceed it.
C28_StepLimitEndsEpisode ==
    Step5Returned =>
        /\ step_count <= max_steps
        /\ step_count = max_steps =>
              /\ ret.terminated
              /\ ~TerritoryDecides => ret.reward.timeout = 1
        /\ SummaryAttached => ret.summary.l <= max_steps

\* ---- after close()

\* a close() of GameWrapper has returned
Closed == closeResult = "returned" /\ Wrapper \in {"p5", "p12"}

\* C29: once a close() of GameWrapper has returned, the wrapper holds no
\* process; whatever is called next writes nothing to the child's pipe, sends
\* no signal and kills nothing, a further close() returns, and an RPC raises
\* without having written.
C29_CloseIdempotentFinal ==
    [][Closed =>
          /\ process = "none"
          /\ UNCHANGED <<process, stdin, nWritten, child, sigterm>>
          /\ closeResult' = "returned"
          /\ lastCall' # lastCall =>
                (lastCall'.outcome = "raised" /\ lastCall'.wrote = 0)]_vars

\* an RPC was attempted after close() had returned
C29_Witness ==
    /\ Closed
    /\ nWritten > 0
    /\ lastCall.outcome = "raised"
    /\ lastCall.why = "not_running"

-----------------------------------------------------------------------------
(* RLWebSocketServer: handle_client and broadcast on one event loop *)

\* handle_client starts for a new connection: self.clients.add(websocket).
\* When a broadcast is iterating the set, the new element lands in a slot the
\* iterator has passed or in one it has yet to reach
HandleClient ==
    \E c \in Clients \ ws.seen :
      \E ahead \in (IF ws.broadcast = "sending" THEN BOOLEAN ELSE {FALSE}) :
        /\ ws' = [ws EXCEPT !.clients = @ \cup {c}, !.open = @ \cup {c},
                            !.handlers = @ \cup {c}, !.seen = @ \cup {c},
                            !.todo = IF ahead THEN @ \cup {c} ELSE @]
        /\ UNCHANGED <<impl, rpcVars, envVars, calcVars>>

\* a connection goes down: sends to it raise ConnectionClosed from now on
ConnectionClosed ==
    \E c \in ws.open :
        /\ ws' = [ws EXCEPT !.open = @ \ {c}, !.whole = @ \ {c}]
        /\ UNCHANGED <<impl, rpcVars, envVars, calcVars>>

\* handle_client leaves its loop: finally self.clients.discard(websocket)
HandlerExit ==
    \E c \in ws.handlers \ ws.open :
        /\ ws' = [ws EXCEPT !.handlers = @ \ {c}, !.clients = @ \ {c},
                            !.todo = @ \ {c}]
        /\ UNCHANGED <<impl, rpcVars, envVars, calcVars>>

\* the for statement of broadcast asks the set iterator for the next client:
\* RuntimeError when the set has changed size, the end of the loop and
\* self.clients -= disconnected when nothing is left, else the await of the
\* next send
Advance(w) ==
    IF Cardinality(w.clients) # w.used
    THEN {[w EXCEPT !.broadcast = "raised", !.cur = 0, !.todo = {}]}
    ELSE IF w.todo = {}
    THEN {[w EXCEPT !.broadcast = "done", !.cur = 0,
                    !.clients = @ \ w.disconnected]}
    ELSE {[w EXCEPT !.broadcast = "sending", !.cur = c, !.todo = @ \ {c}] : c \in w.todo}

\* broadcast is called: return at once without clients, else start the loop
Broadcast ==
    /\ ws.broadcast # "sending"
    /\ ws.rounds < MaxBroadcasts
    /\ LET begun == [ws EXCEPT !.rounds = @ + 1,
                               !.delivered = [c \in Clients |-> 0],
                               !.whole = ws.clients \cap ws.open,
                               !.disconnected = {},
                               !.used = Cardinality(ws.clients),
                               !.todo = ws.clients]
       IN IF ws.clients = {}
          THEN ws' = [begun EXCEPT !.broadcast = "done"]
          ELSE ws' \in Advance(begun)
    /\ UNCHANGED <<impl, rpcVars, envVars, calcVars>>

\* the pending await client.send(...) ends, by returning or by raising
\* ConnectionClosed, and the loop goes on
SendEnds ==
    /\ ws.broadcast = "sending"
    /\ LET sent == IF ws.cur \in ws.open
                   THEN [ws EXCEPT !.delivered[ws.cur] = @ + 1]
                   ELSE [ws EXCEPT !.disconnected = @ \cup {ws.cur}]
       IN ws' \in Advance(sent)
    /\ UNCHANGED <<impl, rpcVars, envVars, calcVars>>

ServerInit ==
    /\ impl = "phase4"
    /\ BridgeInit
    /\ EnvInitState
    /\ CalcIdle
    /\ Untracked
    /\ ServerIdle

ServerNext ==
    \/ HandleClient
    \/ ConnectionClosed
    \/ HandlerExit
    \/ Broadcast
    \/ SendEnds

ServerSpec == ServerInit /\ [][ServerNext]_vars

\* C30: a broadcast does not raise, whatever connects or disconnects while it
\* is suspended at a send; when it has returned, every client that was
\* connected from its start on has been sent the message once, and no client
\* whose connection is up has been dropped from the client set.
C30_BroadcastSafeUnderInterleaving ==
    /\ ws.broadcast # "raised"
    /\ ws.broadcast = "done" =>
          /\ \A c \in ws.whole : ws.delivered[c] = 1
          /\ ws.open \subseteq ws.clients

============================================================================
